---- MODULE Spec2Model ----
(***************************************************************************)
(* A model of katagami.py: the Translator that turns a template into a     *)
(* generator routine (_makescript and its _handle_* methods), the compile  *)
(* step of Translator.__init__, and the runner _exectamplate that iterates *)
(* the routine for a caller.                                               *)
(*                                                                         *)
(* Text is a sequence of symbols.  A symbol is one character ("<", "?",    *)
(* "\n", "a", ...) or one word of host code ("py", "if 1:", "y = 1", ...)  *)
(* that the template engine never looks inside; Width gives the number of  *)
(* characters a symbol stands for, so that columns are character columns.  *)
(***************************************************************************)
EXTENDS Integers, Sequences, FiniteSets, TLC

VARIABLES
    _template_body,         \* Translator._template_body: the decoded template
    pc,                     \* where the translation / rendering stands
    start,                  \* _makescript: start of the current PI match
    last,                   \* _makescript: end of the current PI match
    _lines,                 \* Translator._lines: the emitted host lines
    _indent,                \* Translator._indent: the block-indent stack
    _current_position,      \* Translator._current_position
    _firstmost_executable,  \* Translator._firstmost_executable
    features,               \* Translator.features: the feature mask
    handled,                \* the handler the last PI was dispatched to
    script,                 \* Translator.script: the routine's source lines
    error,                  \* the exception that reached the caller, if any
    flags,                  \* the flags of Translator.__call__
    default_context,        \* the module's default_context mapping
    caller_context,         \* the mapping the caller passes to render_string
    context,                \* the mapping the template is executed against
    executor,               \* the routine (generator __main__): its state
    value,                  \* _exectamplate: the local `value`
    output,                 \* the fragments handed to the caller so far
    closed,                 \* how often executor.close() has been called
    result                  \* what Translator.__call__ returns without returns_iter

vars == <<_template_body, pc, start, last, _lines, _indent, _current_position,
          _firstmost_executable, features, handled, script, error, flags,
          default_context, caller_context, context, executor, value, output,
          closed, result>>

transVars == <<start, last, _lines, _indent, _current_position,
               _firstmost_executable, features, handled, script>>
callVars == <<default_context, caller_context>>
runVars == <<flags, default_context, caller_context, context, executor, value, output,
             closed, result>>

-----------------------------------------------------------------------------
(* Bounds of the model.                                                    *)

MaxSegs == 3

-----------------------------------------------------------------------------
(* Program constants.                                                      *)

returns_bytes == 1
returns_iter == 2
cast_string == 10
except_hook == 20

PREFIX == <<"<", "?">>
SUFFIX == <<"?", ">">>

\* The module global `features`: the names of the feature flags.
FeatureNames == {"cast_string", "except_hook"}

\* globals()[name] for a feature name.
FeatureBit(name) == IF name = "cast_string" THEN cast_string ELSE except_hook

-----------------------------------------------------------------------------
(* Text helpers: the str methods the translator uses.                      *)

Width(s) ==
    CASE s = "py" -> 2
      [] s = "xml" -> 3
      [] s = "foo" -> 3
      [] s = "f()" -> 3
      [] s = "from" -> 4
      [] s = "try:" -> 4
      [] s = "if 1:" -> 5
      [] s = "else:" -> 5
      [] s = "y = 1" -> 5
      [] s = "import" -> 6
      [] s = "except:" -> 7
      [] s = "katagami" -> 8
      [] s = "cast_string" -> 11
      [] s = "except_hook" -> 11
      [] s = "syntax error" -> 12
      [] OTHER -> 1

RECURSIVE TextWidth(_)
TextWidth(t) == IF t = <<>> THEN 0 ELSE Width(Head(t)) + TextWidth(Tail(t))

\* t[i-1:j] of the host: the symbols i..j, clipped to the text.
Slice(t, i, j) ==
    LET lo == IF i < 1 THEN 1 ELSE i
        hi == IF j > Len(t) THEN Len(t) ELSE j
    IN IF lo > hi THEN <<>> ELSE SubSeq(t, lo, hi)

\* The index of the first "\n" of t, or 0.
FirstNewline(t) ==
    IF \E i \in 1..Len(t) : t[i] = "\n"
    THEN CHOOSE i \in 1..Len(t) : t[i] = "\n" /\ \A j \in 1..(i - 1) : t[j] # "\n"
    ELSE 0

\* str.splitlines(): the lines of t, without a last empty line.
RECURSIVE splitlines(_)
splitlines(t) ==
    IF t = <<>> THEN <<>>
    ELSE LET k == FirstNewline(t) IN
         IF k = 0 THEN <<t>>
         ELSE <<Slice(t, 1, k - 1)>> \o splitlines(Slice(t, k + 1, Len(t)))

IsSpace(s) == s \in {" ", "\n"}

\* str.strip()
RECURSIVE lstrip(_)
lstrip(t) == IF t # <<>> /\ IsSpace(Head(t)) THEN lstrip(Tail(t)) ELSE t
RECURSIVE rstrip(_)
rstrip(t) ==
    IF t # <<>> /\ IsSpace(t[Len(t)]) THEN rstrip(Slice(t, 1, Len(t) - 1)) ELSE t
strip(t) == rstrip(lstrip(t))

startswith(t, s) == t # <<>> /\ Head(t) = s
endswith(t, s) == t # <<>> /\ t[Len(t)] = s

\* The symbols of t that are not whitespace: the host tokens of one line.
NonSpace(t) == SelectSeq(t, LAMBDA s : ~IsSpace(s))

-----------------------------------------------------------------------------
(* literalize, and the host's reading of the string literal it writes.     *)

RECURSIVE unicode_escape(_)
unicode_escape(t) ==
    IF t = <<>> THEN <<>>
    ELSE (CASE Head(t) = "\n" -> <<"\\", "n">>
            [] Head(t) = "\\" -> <<"\\", "\\">>
            [] OTHER -> <<Head(t)>>) \o unicode_escape(Tail(t))

RECURSIVE EscapeQuotes(_)
EscapeQuotes(t) ==
    IF t = <<>> THEN <<>>
    ELSE (IF Head(t) = "\"" THEN <<"\\", "\"">> ELSE <<Head(t)>>)
         \o EscapeQuotes(Tail(t))

literalize(s) == <<"\"">> \o EscapeQuotes(unicode_escape(s)) \o <<"\"">>

\* The host's value of the body of a double-quoted string literal.
RECURSIVE Unescape(_)
Unescape(t) ==
    IF t = <<>> THEN <<>>
    ELSE IF Head(t) = "\\" /\ Len(t) >= 2
         THEN (CASE t[2] = "n" -> <<"\n">>
                 [] OTHER -> <<t[2]>>) \o Unescape(Slice(t, 3, Len(t)))
         ELSE <<Head(t)>> \o Unescape(Tail(t))

-----------------------------------------------------------------------------
(* Host integers: the & of the int type, on the small masks used here.     *)

RECURSIVE BitAnd(_, _)
BitAnd(a, b) ==
    IF a = 0 \/ b = 0 THEN 0
    ELSE 2 * BitAnd(a \div 2, b \div 2) + (IF a % 2 = 1 /\ b % 2 = 1 THEN 1 ELSE 0)

RECURSIVE BitOr(_, _)
BitOr(a, b) ==
    IF a = 0 THEN b
    ELSE IF b = 0 THEN a
    ELSE 2 * BitOr(a \div 2, b \div 2) + (IF a % 2 = 1 \/ b % 2 = 1 THEN 1 ELSE 0)

-----------------------------------------------------------------------------
(* The scanner of _makescript: re.escape(PREFIX) + '(?P<body>.*?)' +       *)
(* re.escape(SUFFIX) with re.DOTALL, walked by finditer.  Indexes are the  *)
(* host's: 0-based, the end one exclusive.                                 *)

HasAt(t, i, s) == i >= 1 /\ i + Len(s) - 1 <= Len(t) /\ SubSeq(t, i, i + Len(s) - 1) = s

\* The 1-based indexes at which SUFFIX can close a PI opened at index i.
Closings(t, i) == {j \in (i + Len(PREFIX))..Len(t) : HasAt(t, j, SUFFIX)}

\* The 1-based indexes, after the first `from` symbols, where a match starts.
MatchStarts(t, from) ==
    {i \in (from + 1)..Len(t) : HasAt(t, i, PREFIX) /\ Closings(t, i) # {}}

Min(S) == CHOOSE x \in S : \A y \in S : x <= y

HasMatch(t, from) == MatchStarts(t, from) # {}

\* match.span() and match.group('body') of the next match.
NextMatch(t, from) ==
    LET i == Min(MatchStarts(t, from))
        j == Min(Closings(t, i))
    IN [start |-> i - 1, end |-> j + Len(SUFFIX) - 1,
        body |-> Slice(t, i + Len(PREFIX), j - 1)]

\* The position _makescript gives the PI that starts at index begin:
\* _ = template_body[:start].splitlines(); (len(_), len(_[-1])) if _ else (1, 0)
PositionOf(t, begin) ==
    LET ls == splitlines(Slice(t, 1, begin))
    IN IF ls # <<>> THEN <<Len(ls), TextWidth(ls[Len(ls)])>> ELSE <<1, 0>>

-----------------------------------------------------------------------------
(* Emitted host lines.  ind counts the TABs in front of the line, op is    *)
(* the kind of line, arg its text and pos the template position a marker   *)
(* comment on the line carries (<<0, 0>>: no marker comment).              *)

NoPos == <<0, 0>>
Line(ind, op, arg, pos) == [ind |-> ind, op |-> op, arg |-> arg, pos |-> pos]

YieldLine(expr) == Line(0, "yield", expr, NoPos)
MarkerLine(pos) == Line(0, "marker", <<>>, pos)
StmtLine(text) == Line(0, "stmt", text, NoPos)

\* An emitter that appends the line as it is, without TAB * len(self._indent).
AppendAsIs(lines, indent, line) == Append(lines, line)

\* Translator._appendline: TAB * len(self._indent) + line
_appendline(lines, indent, line) == Append(lines, [line EXCEPT !.ind = Len(indent)])

\* An exception as the caller sees it: its type, the line and column it is
\* reported at, the function of the innermost traceback entry and the type
\* of the exception chained as __cause__.
NoError == [type |-> "none", lineno |-> 0, offset |-> 0, func |-> "none", cause |-> "none"]
Raise(type, pos) ==
    [type |-> type, lineno |-> pos[1], offset |-> pos[2], func |-> "none", cause |-> "none"]

\* What a handler leaves behind.
Result(lines, indent, feats, err) ==
    [lines |-> lines, indent |-> indent, features |-> feats, error |-> err]

-----------------------------------------------------------------------------
(* Translator._embedscript for a script of one physical line: the marker   *)
(* of the line (untokenize writes the comment before the INDENT token, so  *)
(* without indentation), then the statement at the block depth, with the   *)
(* marker of the closing DEDENT/ENDMARKER line behind it.                  *)

_embedscript(lines, indent, pos, tokens) ==
    LET first == Append(lines, MarkerLine(pos))
    IN IF tokens = <<>> THEN first
       ELSE Append(first, Line(Len(indent), "stmt", tokens, <<pos[1] + 1, 0>>))

\* _embedscript(..., posmarker=False) on the except_hook wrapper.
ExceptHookWrapper(lines, indent, expr) ==
    lines \o << Line(Len(indent), "stmt", <<"try:">>, NoPos),
                Line(Len(indent) + 1, "yield", expr, NoPos),
                Line(Len(indent), "stmt", <<"except:">>, NoPos),
                Line(Len(indent) + 1, "yieldhook", <<>>, NoPos) >>

-----------------------------------------------------------------------------
(* The handlers.  Each takes the translator's fields and the PI body.      *)

\* @decorate_attributes(pattern='^=')
InlinePattern(chunk) == startswith(chunk, "=")
\* @decorate_attributes(pattern='^py')
EmbedPattern(chunk) == startswith(chunk, "py")
\* @decorate_attributes(pattern='(^}|.*{$)'): no DOTALL, so `.` stops at a
\* newline, and `$` also matches before a last newline.
BlockPattern(chunk) ==
    \/ startswith(chunk, "}")
    \/ \E k \in 1..Len(chunk) :
          /\ chunk[k] = "{"
          /\ \A i \in 1..(k - 1) : chunk[i] # "\n"
          /\ \/ k = Len(chunk)
             \/ k = Len(chunk) - 1 /\ chunk[Len(chunk)] = "\n"
\* @decorate_attributes(pattern='^\\\\', executable=False)
EscapePattern(chunk) == startswith(chunk, "\\")

_handle_inline_expression(lines, indent, pos, first, feats, chunk) ==
    LET expr == NonSpace(Tail(chunk))
    IN IF BitAnd(feats, except_hook) # 0
       THEN Result(ExceptHookWrapper(lines, indent, expr), indent, feats, NoError)
       ELSE Result(_appendline(lines, indent, YieldLine(expr)), indent, feats, NoError)

\* tokenize.NAME
IsName(s) == s \in {"from", "katagami", "import", "cast_string", "except_hook", "foo"}

\* `token[1] in self.features`: self.features is the int mask (the tuple of
\* names is the module global `features`), and `in` on an int raises
\* TypeError: argument of type 'int' is not iterable.
InFeatures(name, feats) == [raises |-> feats \in Int, found |-> FALSE]

\* The loop over firstline[3:]: the mask after it, or the exception.
RECURSIVE ImportFeatures(_, _)
ImportFeatures(tokens, feats) ==
    IF tokens = <<>> THEN [features |-> feats, error |-> NoError]
    ELSE IF ~IsName(Head(tokens)) THEN ImportFeatures(Tail(tokens), feats)
    ELSE LET found == InFeatures(Head(tokens), feats) IN
         IF found.raises
         THEN [features |-> feats, error |-> Raise("TypeError", NoPos)]
         ELSE ImportFeatures(Tail(tokens),
                IF found.found THEN BitOr(feats, FeatureBit(Head(tokens))) ELSE feats)

_handle_embed_script(lines, indent, pos, first, feats, chunk) ==
    LET firstline == NonSpace(Tail(chunk))
        imp == IF first /\ Slice(firstline, 1, 3) = <<"from", "katagami", "import">>
               THEN ImportFeatures(Slice(firstline, 4, Len(firstline)), feats)
               ELSE [features |-> feats, error |-> NoError]
    IN IF imp.error # NoError
       THEN Result(lines, indent, feats, imp.error)
       ELSE Result(_embedscript(lines, indent, pos, NonSpace(Tail(chunk))),
                   indent, imp.features, NoError)

_handle_block(lines, indent, pos, first, feats, chunk) ==
    LET closes == startswith(chunk, "}")
        chunk1 == IF closes THEN Tail(chunk) ELSE chunk
        indent1 == IF closes /\ indent # <<>> THEN Slice(indent, 1, Len(indent) - 1)
                   ELSE indent
        opens == endswith(chunk1, "{")
        chunk2 == strip(IF opens THEN Slice(chunk1, 1, Len(chunk1) - 1) ELSE chunk1)
        lines1 == IF chunk2 # <<>> THEN _appendline(lines, indent1, StmtLine(chunk2))
                  ELSE lines
    IN IF closes /\ indent = <<>>
       THEN Result(lines, indent, feats, Raise("IndentationError", pos))
       ELSE IF chunk2 # <<>> /\ Head(chunk2) \in {"def", "class"}
       THEN Result(lines, indent1, feats, Raise("AssertionError", NoPos))
       ELSE Result(lines1, IF opens THEN Append(indent1, pos) ELSE indent1,
                   feats, NoError)

_handle_escape(lines, indent, pos, first, feats, chunk) ==
    Result(_appendline(lines, indent,
                       YieldLine(literalize(PREFIX \o Tail(chunk) \o SUFFIX))),
           indent, feats, NoError)

\* The else branch of the handler loop: not supported <?...?>
PassThrough(lines, indent, pos, first, feats, chunk) ==
    Result(_appendline(lines, indent, YieldLine(literalize(PREFIX \o chunk \o SUFFIX))),
           indent, feats, NoError)

\* The handlers in the order of their definition in the class, which a
\* dispatch loop over the class body instead of sorted(dir(self)) would use.
DefinitionOrder ==
    <<"_handle_inline_expression", "_handle_embed_script", "_handle_block",
      "_handle_escape">>

\* sorted(i for i in dir(self) if i.startswith('_handle_'))
HandlerOrder ==
    <<"_handle_block", "_handle_embed_script", "_handle_escape",
      "_handle_inline_expression">>

Pattern(name, chunk) ==
    CASE name = "_handle_block" -> BlockPattern(chunk)
      [] name = "_handle_embed_script" -> EmbedPattern(chunk)
      [] name = "_handle_escape" -> EscapePattern(chunk)
      [] name = "_handle_inline_expression" -> InlinePattern(chunk)

\* A dispatch loop that drops the handler's attribute: the default, True.
ExecutableByDefault(name) == TRUE

\* getattr(handler, 'executable', True)
Executable(name) == name # "_handle_escape"

\* The first handler, in HandlerOrder, whose pattern matches; "" if none.
Dispatch(chunk) ==
    LET hits == {k \in 1..Len(HandlerOrder) : Pattern(HandlerOrder[k], chunk)}
    IN IF hits = {} THEN "" ELSE HandlerOrder[Min(hits)]

Handle(name, lines, indent, pos, first, feats, chunk) ==
    CASE name = "_handle_block" -> _handle_block(lines, indent, pos, first, feats, chunk)
      [] name = "_handle_embed_script" ->
            _handle_embed_script(lines, indent, pos, first, feats, chunk)
      [] name = "_handle_escape" -> _handle_escape(lines, indent, pos, first, feats, chunk)
      [] name = "_handle_inline_expression" ->
            _handle_inline_expression(lines, indent, pos, first, feats, chunk)
      [] OTHER -> PassThrough(lines, indent, pos, first, feats, chunk)

-----------------------------------------------------------------------------
(* The templates of the model: up to MaxSegs segments, each a piece of     *)
(* literal text or one PI, written one after the other.                    *)

PI(body) == PREFIX \o body \o SUFFIX

Literals == {<<"a">>, <<"\n">>}

Bodies ==
    { <<"=", "1">>, <<"=", "x">>, <<"=", "1", "{">>,
      <<"py", " ", "y = 1", " ">>, <<"py", " ", "syntax error", " ">>,
      <<"py", " ", "from", " ", "katagami", " ", "import", " ", "cast_string", " ">>,
      <<" ", "if 1:", " ", "{">>, <<" ", "try:", " ", "{">>,
      <<"}", " ", "except:", " ", "{">>, <<"}">>,
      <<"\\", "py">>, <<"xml">> }

Segments == Literals \cup {PI(b) : b \in Bodies}

RECURSIVE Flatten(_)
Flatten(ss) == IF ss = <<>> THEN <<>> ELSE Head(ss) \o Flatten(Tail(ss))

Try == PI(<<" ", "try:", " ", "{">>)
Except == PI(<<"}", " ", "except:", " ", "{">>)
If == PI(<<" ", "if 1:", " ", "{">>)
Else == PI(<<"}", " ", "else:", " ", "{">>)
End == PI(<<"}">>)
One == PI(<<"=", "1">>)
Fails == PI(<<"=", "f()">>)

\* The script of the doctest "With except_hook".
HookImport ==
    PI(<<"py", " ", "from", " ", "katagami", " ", "import", " ", "except_hook", " ">>)

\* Longer templates, after the examples of the handlers' docstrings: a try
\* block around an inline expression, if/else, nested blocks, block PIs
\* whose body has a line break before or after the brace.
Scenarios ==
    { Flatten(<<Try, One, Except, <<"a">>, End>>),
      Flatten(<<Try, One, Except, One, End>>),
      Flatten(<<Try, One, Except, End, <<"a">>>>),
      Flatten(<<<<"a">>, Try, One, <<"a">>, Except, <<"a">>, End, <<"a">>>>),
      Flatten(<<Try, <<"a">>, Except, <<"a">>, Else, One, End>>),
      Flatten(<<If, <<"a">>, Else, <<"a">>, End>>),
      Flatten(<<If, If, <<"a">>, End, End>>),
      Flatten(<<If, <<"\n">>, If, <<"a">>>>),
      Fails,
      Flatten(<<<<"\n">>, <<"a">>, Fails, <<"a">>>>),
      Flatten(<<Try, Fails, Except, <<"a">>, End>>),
      PI(<<"\\", "py", "{">>),
      Flatten(<<PI(<<"\\", "py", "{">>), <<"a">>, End>>),
      Flatten(<<HookImport, One>>),
      Flatten(<<HookImport, <<"a">>, One, <<"a">>>>),
      PI(<<"\n", "if 1:", " ", "{">>),
      Flatten(<<PI(<<"\n", "if 1:", " ", "{">>), <<"a">>, End>>),
      PI(<<" ", "if 1:", "\n", "{">>),
      PI(<<" ", "if 1:", " ", "{", "\n">>),
      Flatten(<<PI(<<" ", "if 1:", " ", "{", "\n">>), <<"a">>, End>>),
      Flatten(<<If, <<"a">>, PI(<<"}", " ", "else:", " ", "{", "\n">>), <<"a">>, End>>) }

Templates ==
    UNION {{Flatten(ss) : ss \in [1..n -> Segments]} : n \in 0..MaxSegs} \cup Scenarios

-----------------------------------------------------------------------------
(* The state after construction, and Translator._makescript.               *)

NotGiven == [t |-> "notgiven", v |-> <<>>]

\* An overlay in the other order, dict(c, **d): the defaults win.
OverlayDefaultsLast(d, c) ==
    [n \in DOMAIN d \cup DOMAIN c |-> IF n \in DOMAIN d THEN d[n] ELSE c[n]]

\* Mappings from names to values: {}, and dict(d, **c).
EmptyMap == [n \in {} |-> ""]
Overlay(d, c) ==
    [n \in DOMAIN d \cup DOMAIN c |-> IF n \in DOMAIN c THEN c[n] ELSE d[n]]

Idle == [state |-> "none", at |-> 0]

Init ==
    /\ _template_body \in Templates
    /\ pc = "scan"
    /\ start = 0
    /\ last = 0
    /\ _lines = <<>>
    /\ _indent = <<>>
    /\ _current_position = <<1, 0>>
    /\ _firstmost_executable = TRUE
    /\ features = 0
    /\ handled = "none"
    /\ script = <<>>
    /\ error = NoError
    /\ flags = 0
    /\ default_context = EmptyMap
    /\ caller_context = EmptyMap
    /\ context = EmptyMap
    /\ executor = Idle
    /\ value = NotGiven
    /\ output = <<>>
    /\ closed = 0
    /\ result = NotGiven

\* One round of `for match in pattern.finditer(template_body)`.
ScanPI ==
    /\ pc = "scan"
    /\ HasMatch(_template_body, last)
    /\ LET m == NextMatch(_template_body, last)
           pos == PositionOf(_template_body, m.start)
           chunk == Slice(_template_body, last + 1, m.start)
           lines1 == IF chunk # <<>>
                     THEN _appendline(_lines, _indent, YieldLine(literalize(chunk)))
                     ELSE _lines
           lines2 == _appendline(lines1, _indent, MarkerLine(pos))
           name == Dispatch(m.body)
           r == Handle(name, lines2, _indent, pos, _firstmost_executable, features,
                       m.body)
       IN /\ _current_position' = pos
          /\ start' = m.start
          /\ last' = m.end
          /\ handled' = IF name = "" THEN "passthrough" ELSE name
          /\ _lines' = r.lines
          /\ _indent' = r.indent
          /\ features' = r.features
          /\ error' = r.error
          /\ IF r.error # NoError
             THEN pc' = "failed" /\ UNCHANGED _firstmost_executable
             ELSE /\ pc' = "scan"
                  /\ _firstmost_executable' =
                        IF name # "" /\ Executable(name) THEN FALSE
                        ELSE _firstmost_executable
    /\ UNCHANGED <<_template_body, script>>
    /\ UNCHANGED runVars

\* The header of the script: __file__, __encoding__ and def __main__():
ScriptPrefix ==
    << Line(0, "stmt", <<"__file__ =">>, NoPos),
       Line(0, "stmt", <<"__encoding__ =">>, NoPos),
       Line(0, "def", <<"def __main__():">>, NoPos) >>

\* '\n'.join(prefix) + '\n' + '\n'.join(TAB + i for i in self._lines)
MakeScriptText(lines) ==
    LET body == IF lines = <<>> THEN <<Line(0, "pass", <<>>, NoPos)>> ELSE lines
    IN ScriptPrefix \o [i \in 1..Len(body) |-> [body[i] EXCEPT !.ind = @ + 1]]

\* The rest of _makescript, after the last PI.
FinishScript ==
    /\ pc = "scan"
    /\ ~HasMatch(_template_body, last)
    /\ LET chunk == Slice(_template_body, last + 1, Len(_template_body))
           lines1 == IF chunk # <<>>
                     THEN _appendline(_lines, _indent, YieldLine(literalize(chunk)))
                     ELSE _lines
       IN /\ _lines' = lines1
          /\ IF _indent # <<>>
             THEN /\ error' = Raise("IndentationError", _indent[Len(_indent)])
                  /\ pc' = "failed"
                  /\ UNCHANGED script
             ELSE /\ script' = MakeScriptText(lines1)
                  /\ pc' = "made"
                  /\ UNCHANGED error
    /\ UNCHANGED <<_template_body, start, last, _indent, _current_position,
                   _firstmost_executable, features, handled>>
    /\ UNCHANGED runVars

-----------------------------------------------------------------------------
(* The host compiler, compile(self.script, self.name, 'exec'), as far as   *)
(* the translator depends on it: which line of the script, if any, it      *)
(* reports a SyntaxError on.  Comment lines are not code.                  *)

IsCode(line) == line.op # "marker"

\* The host expressions of the model: a string literal, the number 1, the
\* name x, a call of the name f, and nothing (a bare yield).
IsLiteral(expr) == Len(expr) >= 2 /\ Head(expr) = "\"" /\ expr[Len(expr)] = "\""
IsExpression(expr) == IsLiteral(expr) \/ expr \in {<<"1">>, <<"x">>, <<"f()">>, <<>>}

IsImport(text) ==
    /\ Len(text) >= 4
    /\ Slice(text, 1, 3) = <<"from", "katagami", "import">>
    /\ \A k \in 4..Len(text) : IsName(text[k]) /\ text[k] \notin {"from", "import"}

\* What the host's grammar makes of one line of code.
LineKind(line) ==
    CASE line.op = "yield" -> IF IsExpression(line.arg) THEN "simple" ELSE "bad"
      [] line.op \in {"yieldhook", "pass"} -> "simple"
      [] line.op = "def" -> "def"
      [] line.arg = <<"if 1:">> -> "if"
      [] line.arg = <<"try:">> -> "try"
      [] line.arg = <<"except:">> -> "except"
      [] line.arg = <<"else:">> -> "else"
      [] line.arg = <<"y = 1">> -> "simple"
      [] line.arg \in {<<"__file__ =">>, <<"__encoding__ =">>} -> "simple"
      [] IsImport(line.arg) -> "simple"
      [] OTHER -> "bad"

IsHeader(kind) == kind \in {"def", "if", "try", "except", "else"}

Frame(kind, at) == [kind |-> kind, at |-> at]

\* The line the compiler reports, 0 if the script compiles.  stack holds the
\* header of every block that is open at line i, expect says that the line
\* before was a header, whose block must start now.
RECURSIVE ParseFrom(_, _, _, _)
ParseFrom(s, i, stack, expect) ==
    IF i > Len(s)
    THEN IF expect \/ \E j \in 1..Len(stack) : stack[j].kind = "try"
         THEN Len(s) ELSE 0
    ELSE IF ~IsCode(s[i]) THEN ParseFrom(s, i + 1, stack, expect)
    ELSE LET d == s[i].ind
             cur == Len(stack)
             kind == LineKind(s[i])
             sibling == IF d < cur THEN stack[d + 1].kind ELSE "none"
             kept == Slice(stack, 1, d)
         IN CASE expect /\ d # cur -> i
              [] ~expect /\ d > cur -> i
              [] \E j \in (d + 2)..cur : stack[j].kind = "try" -> i
              [] sibling = "try" /\ kind # "except" -> i
              [] kind = "bad" -> i
              [] kind = "except" /\ sibling = "except" -> stack[d + 1].at
              [] kind = "except" /\ sibling # "try" -> i
              [] kind = "else" /\ sibling \notin {"if", "except"} -> i
              [] IsHeader(kind) -> ParseFrom(s, i + 1, Append(kept, Frame(kind, i)), TRUE)
              [] OTHER -> ParseFrom(s, i + 1, kept, FALSE)

CompileErrorLine(s) == ParseFrom(s, 1, <<>>, FALSE)

\* Translator._find_original_pos: the marker in force at host line lineno.
\* pattern.match is anchored at the start of the line, so a marker comment
\* behind a statement is not seen.
RECURSIVE FindFrom(_, _, _, _)
FindFrom(s, i, lineno, pos) ==
    IF i > Len(s) THEN NoPos
    ELSE LET pos1 == IF s[i].op = "marker" THEN s[i].pos ELSE pos
         IN IF i >= lineno THEN pos1 ELSE FindFrom(s, i + 1, lineno, pos1)

_find_original_pos(s, lineno) == FindFrom(s, 1, lineno, <<lineno, 0>>)

\* Translator.__init__ after _makescript: compile, and on SyntaxError raise
\* a SyntaxError at the template position.
Compile ==
    /\ pc = "made"
    /\ LET bad == CompileErrorLine(script)
       IN IF bad # 0
          THEN /\ error' = Raise("SyntaxError", _find_original_pos(script, bad))
               /\ pc' = "failed"
          ELSE /\ pc' = "compiled"
               /\ UNCHANGED error
    /\ UNCHANGED <<_template_body>>
    /\ UNCHANGED transVars
    /\ UNCHANGED runVars

-----------------------------------------------------------------------------
(* The routine: the generator function __main__ of the script, run by the  *)
(* host.  Values carry their host type.                                    *)

Str(v) == [t |-> "str", v |-> v]
Bytes(v) == [t |-> "bytes", v |-> v]
IntOne == [t |-> "int", v |-> <<"1">>]
None == [t |-> "NoneType", v |-> <<>>]

\* What one resumption of the routine ends in.
\* inner is the function of the innermost traceback entry of an exception.
Yields(v, at) == [kind |-> "yield", value |-> v, at |-> at, exc |-> "none", inner |-> "none"]
Returns == [kind |-> "return", value |-> None, at |-> 0, exc |-> "none", inner |-> "none"]
Raises(exc, at, inner) ==
    [kind |-> "raise", value |-> None, at |-> at, exc |-> exc, inner |-> inner]

\* The first line of code after line i that is not deeper than depth d.
RECURSIVE BlockEnd(_, _, _)
BlockEnd(s, i, d) ==
    IF i > Len(s) THEN i
    ELSE IF IsCode(s[i]) /\ s[i].ind <= d THEN i
    ELSE BlockEnd(s, i + 1, d)

\* The line after the `except:` that catches an exception raised at depth d
\* on a line before i, 0 if the exception leaves the routine.
RECURSIVE HandlerFor(_, _, _)
HandlerFor(s, i, d) ==
    LET j == BlockEnd(s, i, d - 1)
    IN IF d = 0 \/ j > Len(s) THEN 0
       ELSE IF LineKind(s[j]) = "except" THEN j + 1
       ELSE HandlerFor(s, j + 1, s[j].ind)

\* The value of a host expression in the context ctx, or the exception.
Eval(expr, ctx) ==
    CASE IsLiteral(expr) ->
            [exc |-> "none", inner |-> "none",
             value |-> Str(Unescape(Slice(expr, 2, Len(expr) - 1)))]
      [] expr = <<"1">> -> [exc |-> "none", inner |-> "none", value |-> IntOne]
      [] expr = <<"x">> ->
            IF "x" \in DOMAIN ctx
            THEN [exc |-> "none", inner |-> "none", value |-> Str(<<ctx["x"]>>)]
            ELSE [exc |-> "NameError", inner |-> "__main__", value |-> None]
      [] expr = <<"f()">> ->
            \* the caller's f is a host function that raises ValueError
            IF "f" \in DOMAIN ctx THEN [exc |-> "ValueError", inner |-> "f", value |-> None]
            ELSE [exc |-> "NameError", inner |-> "__main__", value |-> None]
      [] OTHER -> [exc |-> "none", inner |-> "none", value |-> None]

\* The routine runs on from line i (exc: the exception being handled, for the
\* except_hook wrapper) until it yields, returns or lets an exception out.
RECURSIVE RunFrom(_, _, _, _)
RunFrom(s, i, ctx, exc) ==
    IF i > Len(s) THEN Returns
    ELSE IF ~IsCode(s[i]) THEN RunFrom(s, i + 1, ctx, exc)
    ELSE LET kind == LineKind(s[i])
             d == s[i].ind
             after == BlockEnd(s, i + 1, d)
         IN CASE s[i].op = "yield" ->
                    LET e == Eval(s[i].arg, ctx)
                        h == HandlerFor(s, i + 1, d)
                    IN IF e.exc = "none" THEN Yields(e.value, i)
                       ELSE IF h = 0 THEN Raises(e.exc, i, e.inner)
                       ELSE RunFrom(s, h, ctx, e.exc)
              [] s[i].op = "yieldhook" -> Yields(Str(<<exc>>), i)
              [] kind = "except" ->
                    \* the try block is through: on to its else block, if any
                    IF after <= Len(s) /\ LineKind(s[after]) = "else" /\ s[after].ind = d
                    THEN RunFrom(s, after + 1, ctx, exc)
                    ELSE RunFrom(s, after, ctx, exc)
              [] kind = "else" -> RunFrom(s, after, ctx, exc)
              [] OTHER -> RunFrom(s, i + 1, ctx, exc)

\* A routine in which no except clause takes a thrown exception.
ThrowUncaught(s, at, ctx, exc) == Raises(exc, at, "__main__")

\* The routine resumed at the yield of line at with exception exc thrown in.
ThrowAt(s, at, ctx, exc) ==
    LET h == HandlerFor(s, at + 1, s[at].ind)
    IN IF h = 0 THEN Raises(exc, at, "__main__") ELSE RunFrom(s, h, ctx, exc)

\* Whether __main__ is a generator function: whether a yield occurs in it.
IsGenerator(s) == \E i \in 1..Len(s) : s[i].op \in {"yield", "yieldhook"}

\* The line of the def: the routine's code starts on the next one.
DefLine(s) == CHOOSE i \in 1..Len(s) : s[i].op = "def"

-----------------------------------------------------------------------------
(* Translator.__call__ and the runner Translator._exectamplate, itself a   *)
(* generator: nothing of it runs before the caller pulls.                  *)

Flags == {0, returns_bytes, returns_iter, returns_bytes + returns_iter}
\* What the application has registered in default_context, and the mapping
\* a caller passes: nothing at all, or defaults for x and d under a per-call
\* mapping that binds x and the function f.
Contexts ==
    { [default |-> EmptyMap, given |-> EmptyMap],
      [default |-> [n \in {"x", "d"} |-> "D"],
       given |-> [n \in {"x", "f"} |-> IF n = "x" THEN "X" ELSE "function"]] }

\* The names the module level of the script binds in its globals.
Dunders == {"__file__", "__encoding__", "__main__"}

\* A __call__ whose runner is no generator: the module level of the script
\* is executed, and binds its names, before the call returns.
CallEagerly ==
    /\ pc = "compiled"
    /\ \E f \in Flags, c \in Contexts :
          /\ flags' = f
          /\ default_context' = c.default
          /\ caller_context' = c.given
          /\ context' = Overlay(Overlay(c.default, c.given), [n \in Dunders |-> n])
    /\ pc' = "called"
    /\ UNCHANGED <<_template_body, error, executor, value, output, closed, result>>
    /\ UNCHANGED transVars

\* render_string(...): template(dict(default_context, **context), flags)
Call ==
    /\ pc = "compiled"
    /\ \E f \in Flags, c \in Contexts :
          /\ flags' = f
          /\ default_context' = c.default
          /\ caller_context' = c.given
          /\ context' = Overlay(c.default, c.given)
    /\ pc' = "called"
    /\ UNCHANGED <<_template_body, error, executor, value, output, closed, result>>
    /\ UNCHANGED transVars

\* The first pull: execcode(self.code, context), executor = __main__(), and
\* `raise StopIteration` when that is None.  A host that implements PEP 479
\* turns a StopIteration raised inside a generator into RuntimeError; an
\* older host ends the generator without an error.
Start ==
    /\ pc = "called"
    /\ context' = Overlay(context, [n \in Dunders |-> n])
    /\ IF IsGenerator(script)
       THEN /\ executor' = [state |-> "created", at |-> DefLine(script)]
            /\ pc' = "next"
            /\ UNCHANGED error
       ELSE /\ UNCHANGED executor
            /\ \E pep479 \in BOOLEAN :
                  IF pep479
                  THEN pc' = "raised" /\ error' = Raise("RuntimeError", NoPos)
                  ELSE pc' = "done" /\ UNCHANGED error
    /\ UNCHANGED <<_template_body, flags, value, output, closed, result>>
    /\ UNCHANGED callVars
    /\ UNCHANGED transVars

\* A _fix_error_pos without the test of the innermost entry: every exception
\* is raised again at the template line of the routine's failing host line.
FixEveryErrorPos(exc, at, inner) ==
    [type |-> exc, lineno |-> _find_original_pos(script, at)[1], offset |-> 0,
     func |-> "<module>", cause |-> exc]

\* _fix_error_pos and the `raise` behind it, for an exception that left the
\* routine at host line at with innermost traceback entry in function inner.
\* In __main__: a new exception of the same type, raised at the template
\* line of that host line, the original chained as its cause.  Elsewhere
\* _fix_error_pos returns and the original is raised again as it is: its
\* innermost entry is a line of inner, not of the template.
_fix_error_pos(exc, at, inner) ==
    IF inner = "__main__"
    THEN [type |-> exc, lineno |-> _find_original_pos(script, at)[1], offset |-> 0,
          func |-> "<module>", cause |-> exc]
    ELSE [type |-> exc, lineno |-> 0, offset |-> 0, func |-> inner, cause |-> "none"]

\* str(value): the default caster.
StringType(v) == Str(IF v.t = "NoneType" THEN <<"None">> ELSE v.v)

\* The end of a round with the encoding outside the try ... finally: a
\* failing encode leaves the runner without closing the routine.
DeliverUnguarded(v, at) ==
    IF BitAnd(flags, returns_bytes) # 0 /\ v.t # "str"
    THEN /\ error' = Raise("AttributeError", NoPos)
         /\ pc' = "raised"
         /\ executor' = [state |-> "suspended", at |-> at]
         /\ UNCHANGED <<value, output, closed>>
    ELSE LET out == IF BitAnd(flags, returns_bytes) # 0 THEN Bytes(v.v) ELSE v
         IN /\ value' = out
            /\ output' = Append(output, out)
            /\ pc' = "yielded"
            /\ executor' = [state |-> "suspended", at |-> at]
            /\ UNCHANGED <<error, closed>>

\* The end of one round of the loop, the routine suspended at line at:
\* encode under returns_bytes, and yield the value to the caller.
Deliver(v, at) ==
    IF BitAnd(flags, returns_bytes) # 0 /\ v.t # "str"
    THEN \* value.encode: AttributeError, through `finally: executor.close()`
         /\ error' = Raise("AttributeError", NoPos)
         /\ pc' = "raised"
         /\ executor' = [state |-> "closed", at |-> at]
         /\ closed' = closed + 1
         /\ UNCHANGED <<value, output>>
    ELSE LET out == IF BitAnd(flags, returns_bytes) # 0 THEN Bytes(v.v) ELSE v
         IN /\ value' = out
            /\ output' = Append(output, out)
            /\ pc' = "yielded"
            /\ executor' = [state |-> "suspended", at |-> at]
            /\ UNCHANGED <<error, closed>>

\* What the runner does with the outcome r of next(executor) (checked: the
\* isinstance test follows) or of executor.throw(...) (no test follows).
AfterResume(r, checked) ==
    CASE r.kind = "raise" ->
            /\ error' = _fix_error_pos(r.exc, r.at, r.inner)
            /\ pc' = "raised"
            /\ executor' = [state |-> "closed", at |-> r.at]
            /\ closed' = closed + 1
            /\ UNCHANGED <<value, output>>
      [] r.kind = "return" ->
            \* StopIteration: `except StopIteration: pass`, then the finally
            /\ pc' = "done"
            /\ executor' = [state |-> "closed", at |-> executor.at]
            /\ closed' = closed + 1
            /\ UNCHANGED <<error, value, output>>
      [] OTHER ->
            IF checked /\ r.value.t # "str"
            THEN IF BitAnd(features, cast_string) # 0
                 THEN Deliver(StringType(r.value), r.at)
                 ELSE \* `continue`: the next round throws
                      /\ executor' = [state |-> "suspended", at |-> r.at]
                      /\ value' = r.value
                      /\ pc' = "throw"
                      /\ UNCHANGED <<error, output, closed>>
            ELSE Deliver(r.value, r.at)

\* A round of `while 1` with value notgiven: value = next(executor)
RunnerNext ==
    /\ pc = "next"
    /\ AfterResume(RunFrom(script, executor.at + 1, context, "none"), TRUE)
    /\ UNCHANGED <<_template_body, flags, context, result>>
    /\ UNCHANGED callVars
    /\ UNCHANGED transVars

\* A round of `while 1` with a value: value = executor.throw(TypeError, ...)
RunnerThrow ==
    /\ pc = "throw"
    /\ AfterResume(ThrowAt(script, executor.at, context, "TypeError"), FALSE)
    /\ UNCHANGED <<_template_body, flags, context, result>>
    /\ UNCHANGED callVars
    /\ UNCHANGED transVars

\* The caller (the join of __call__, or the owner of the iterator) pulls
\* again: the runner resumes behind its yield with `value = notgiven`.
Pull ==
    /\ pc = "yielded"
    /\ value' = NotGiven
    /\ pc' = "next"
    /\ UNCHANGED <<_template_body, error, flags, context, executor, output, closed,
                   result>>
    /\ UNCHANGED callVars
    /\ UNCHANGED transVars

\* The owner of a returns_iter iterator closes it: GeneratorExit at the
\* runner's yield, and its `finally: executor.close()`.
Close ==
    /\ BitAnd(flags, returns_iter) # 0
    /\ \/ /\ pc = "called"
          /\ pc' = "closed"
          /\ UNCHANGED <<error, executor, closed>>
       \/ /\ pc = "yielded"
          /\ closed' = closed + 1
          /\ LET r == ThrowAt(script, executor.at, context, "GeneratorExit")
             IN /\ executor' = [state |-> "closed", at |-> executor.at]
                /\ CASE r.kind = "yield" ->
                          pc' = "raised" /\ error' = Raise("RuntimeError", NoPos)
                     [] r.kind = "raise" /\ r.exc # "GeneratorExit" ->
                          pc' = "raised" /\ error' = Raise(r.exc, NoPos)
                     [] OTHER -> pc' = "closed" /\ UNCHANGED error
    /\ UNCHANGED <<_template_body, flags, context, value, output, result>>
    /\ UNCHANGED callVars
    /\ UNCHANGED transVars

\* Without returns_iter: StringType().join(result) or BytesType().join(result)
Join ==
    /\ pc = "done"
    /\ BitAnd(flags, returns_iter) = 0
    /\ LET want == IF BitAnd(flags, returns_bytes) # 0 THEN "bytes" ELSE "str"
       IN IF \E k \in 1..Len(output) : output[k].t # want
          THEN pc' = "raised" /\ error' = Raise("TypeError", NoPos) /\ UNCHANGED result
          ELSE /\ pc' = "returned"
               /\ result' = [t |-> want, v |-> Flatten([k \in 1..Len(output) |-> output[k].v])]
               /\ UNCHANGED error
    /\ UNCHANGED <<_template_body, flags, context, executor, value, output, closed>>
    /\ UNCHANGED callVars
    /\ UNCHANGED transVars

Next ==
    \/ ScanPI
    \/ FinishScript
    \/ Compile
    \/ Call
    \/ Start
    \/ RunnerNext
    \/ RunnerThrow
    \/ Pull
    \/ Close
    \/ Join

Spec == Init /\ [][Next]_vars

-----------------------------------------------------------------------------
(* The properties checked.  Positions of the template are compared with    *)
(* the line and column counted directly on the text.                       *)

\* The line (from 1) and the column (from 0) of the symbol behind the first
\* `begin` symbols of t.
TruePosition(t, begin) ==
    LET breaks == {i \in 1..begin : t[i] = "\n"}
        from == IF breaks = {} THEN 0 ELSE CHOOSE i \in breaks : \A j \in breaks : j <= i
    IN <<1 + Cardinality(breaks), TextWidth(Slice(t, from + 1, begin))>>

\* The PI that was handled last: its body, and whether it is the feature
\* import.
CurrentBody == Slice(_template_body, start + Len(PREFIX) + 1, last - Len(SUFFIX))
ImportBody == <<"py", " ", "from", " ", "katagami", " ", "import", " ", "cast_string", " ">>

\* A round of the scan loop is the step that moves `last`.
ScanStep == pc = "scan" /\ last' # last

\* The text before the only PI of a template that ends with the PI pi, if
\* the template is such a one.
EndsWithOnly(pi) ==
    /\ Len(_template_body) >= Len(pi)
    /\ HasAt(_template_body, Len(_template_body) - Len(pi) + 1, pi)
    /\ ~HasMatch(Slice(_template_body, 1, Len(_template_body) - Len(pi)), 0)
    /\ MatchStarts(_template_body, 0) = {Len(_template_body) - Len(pi) + 1}

\* Line breaks first, then one-column characters up to the PI.
BreaksThenColumns(t) == \A i, j \in 1..Len(t) : (i < j /\ t[j] = "\n") => t[i] = "\n"

SyntaxErrorPI == PI(<<"py", " ", "syntax error", " ">>)

\* C1: rendering a template whose routine contains no yield gives the empty
\* result and raises no error, joined or iterated.
C1_NoYieldRendersEmpty ==
    (pc \notin {"scan", "made", "failed"} /\ ~IsGenerator(script))
        => (pc # "raised" /\ output = <<>>)

\* C2: a template of line breaks, then columns, then one malformed <?py ...?>
\* fails to translate with a SyntaxError at the PI's line and column.
C2_SyntaxErrorAtPI ==
    LET n == Len(_template_body) - Len(SyntaxErrorPI)
    IN (/\ EndsWithOnly(SyntaxErrorPI)
        /\ BreaksThenColumns(Slice(_template_body, 1, n))
        /\ pc \notin {"scan", "made"})
          => /\ pc = "failed"
             /\ error = Raise("SyntaxError", TruePosition(_template_body, n))

\* C3: a template whose only PI is <?=1?> renders, with cast_string off, to
\* a TypeError reported at the template line the PI starts on.
C3_TypeErrorAtLine ==
    (/\ Cardinality(MatchStarts(_template_body, 0)) = 1
     /\ NextMatch(_template_body, 0).body = <<"=", "1">>
     /\ BitAnd(features, cast_string) = 0)
       => /\ pc \notin {"done", "returned"}
          /\ pc = "raised" =>
                /\ error.type = "TypeError"
                /\ error.lineno =
                     TruePosition(_template_body, NextMatch(_template_body, 0).start)[1]

\* The start indexes of the openers that are unmatched after the whole
\* template: the block stack with the index of the PI in place of its position.
RECURSIVE OpenersFrom(_, _, _)
OpenersFrom(t, from, stack) ==
    IF ~HasMatch(t, from) THEN stack
    ELSE LET m == NextMatch(t, from)
             r == Handle(Dispatch(m.body), <<>>, stack, <<m.start, 0>>, FALSE, 0, m.body)
         IN IF r.error # NoError THEN stack ELSE OpenersFrom(t, m.end, r.indent)

UnmatchedOpeners == OpenersFrom(_template_body, 0, <<>>)

\* C4: after the last PI translation succeeds only with an empty block
\* stack; with an opener unmatched it raises IndentationError at the line and
\* column of the innermost unmatched opener, and produces no script.
C4_UnclosedBraceAtOpener ==
    /\ pc \in {"made", "compiled", "called"} => _indent = <<>>
    /\ (pc # "scan" /\ _indent # <<>>)
          => /\ pc = "failed"
             /\ script = <<>>
             /\ error = Raise("IndentationError",
                    TruePosition(_template_body,
                                 UnmatchedOpeners[Len(UnmatchedOpeners)][1]))

\* C5: a block PI that starts with } pops exactly one frame; on an empty
\* stack translation stops there with IndentationError at the PI's line and
\* column, whatever follows.
C5_BraceNotStartedAtPI ==
    [][(ScanStep /\ handled' = "_handle_block" /\ startswith(CurrentBody', "}"))
          => IF _indent = <<>>
             THEN /\ pc' = "failed"
                  /\ error' = Raise("IndentationError",
                                    TruePosition(_template_body, start'))
             ELSE /\ pc' = "scan"
                  /\ Slice(_indent', 1, Len(_indent) - 1)
                        = Slice(_indent, 1, Len(_indent) - 1)
                  /\ Len(_indent') = Len(_indent) - 1
                        + (IF endswith(CurrentBody', "{") THEN 1 ELSE 0)]_vars

\* The bits of the recognized names among tokens.
RECURSIVE NamesMask(_)
NamesMask(tokens) ==
    IF tokens = <<>> THEN 0
    ELSE BitOr(IF Head(tokens) \in FeatureNames THEN FeatureBit(Head(tokens)) ELSE 0,
               NamesMask(Tail(tokens)))

\* C6: when the first executable PI is a script that starts with
\* `from katagami import NAMES`, it is handled without error and the mask
\* becomes the OR of the bits of the recognized names.
C6_ImportSetsMask ==
    [][(/\ ScanStep
        /\ _firstmost_executable
        /\ handled' = "_handle_embed_script"
        /\ CurrentBody' = ImportBody)
          => /\ pc' = "scan"
             /\ error' = NoError
             /\ features' = BitOr(features, NamesMask(ImportBody))]_vars

\* C7: a non-string value from the routine, cast_string off, is not handed
\* to the caller: the next step throws TypeError in at that yield.  Uncaught
\* it reaches the caller and no fragment follows; caught with a yield, the
\* yielded value is the fragment of the step.
C7_ThrowProtocol ==
    [][/\ (/\ pc = "next"
           /\ BitAnd(features, cast_string) = 0
           /\ RunFrom(script, executor.at + 1, context, "none").kind = "yield"
           /\ RunFrom(script, executor.at + 1, context, "none").value.t # "str")
             => /\ pc' = "throw"
                /\ output' = output
                /\ executor'.at = RunFrom(script, executor.at + 1, context, "none").at
       /\ pc = "throw" =>
             LET r == ThrowAt(script, executor.at, context, "TypeError")
             IN /\ r.kind = "raise" =>
                      pc' = "raised" /\ error'.type = "TypeError" /\ output' = output
                /\ r.kind = "yield" =>
                      /\ pc' = "yielded"
                      /\ value'.v = r.value.v
                      /\ output' = Append(output, value')]_vars

\* C8: every value the runner hands to its caller is of string type, bytes
\* under returns_bytes.
C8_OnlyStringsYielded ==
    \A k \in 1..Len(output) :
        output[k].t = (IF BitAnd(flags, returns_bytes) # 0 THEN "bytes" ELSE "str")

\* The handler of a body under an order of the kinds.
FirstIn(order, chunk) ==
    LET hits == {k \in 1..Len(order) : Pattern(order[k], chunk)}
    IN IF hits = {} THEN "passthrough" ELSE order[Min(hits)]

\* C9 as written: the first matching kind wins in the order inline
\* expression, embedded script, block, escape.
C9_OrderAsWritten ==
    last > 0 =>
        handled = FirstIn(<<"_handle_inline_expression", "_handle_embed_script",
                            "_handle_block", "_handle_escape">>, CurrentBody)

\* C9: the first matching kind wins in the order block, embedded script,
\* escape, inline expression (the sorted handler names): a body that starts
\* with = or py and ends with { is handled as a block.
C9_OrderSorted ==
    last > 0 =>
        handled = FirstIn(<<"_handle_block", "_handle_embed_script",
                            "_handle_escape", "_handle_inline_expression">>, CurrentBody)

C9_Witness == handled = "_handle_block" /\ CurrentBody = <<"=", "1", "{">>

\* C10: the mask changes, or the import is inspected at all, only in an
\* embedded script before which no executable PI was handled; escapes and
\* pass-through PIs keep the flag, an executable PI clears it for good, and
\* a later import script leaves the mask alone.
C10_FirstmostExecutable ==
    [][/\ (features' # features \/ (ScanStep /\ error'.type = "TypeError"))
             => (ScanStep /\ _firstmost_executable /\ handled' = "_handle_embed_script")
       /\ (ScanStep /\ pc' = "scan") =>
             _firstmost_executable' =
                (_firstmost_executable /\ handled' \in {"_handle_escape", "passthrough"})
       /\ ~_firstmost_executable => ~_firstmost_executable'
       /\ (ScanStep /\ ~_firstmost_executable /\ CurrentBody' = ImportBody)
             => (features' = features /\ pc' = "scan" /\ error' = NoError)]_vars

C10_Witness ==
    /\ handled = "_handle_embed_script"
    /\ CurrentBody = ImportBody
    /\ ~_firstmost_executable
    /\ error = NoError
    /\ \E i \in 1..start : HasAt(_template_body, i, PI(<<"\\", "py">>))

\* The bodies of the PIs of a template, in order.
RECURSIVE BodiesFrom(_, _)
BodiesFrom(t, from) ==
    IF ~HasMatch(t, from) THEN <<>>
    ELSE <<NextMatch(t, from).body>> \o BodiesFrom(t, NextMatch(t, from).end)

PIBodies == BodiesFrom(_template_body, 0)

HookImportBody ==
    <<"py", " ", "from", " ", "katagami", " ", "import", " ", "except_hook", " ">>

\* C11: with cast_string on (the template's first script imports it), a
\* non-string value from the routine is replaced by the caster's result (the
\* default string constructor when no __cast_string__ is bound) and no
\* TypeError is thrown into the routine.
C11_CastReplacesValue ==
    PIBodies = <<ImportBody, <<"=", "1">>>>
       => /\ pc \notin {"failed", "throw", "raised"}
          /\ \A k \in 1..Len(output) : output[k].t \in {"str", "bytes"}
          /\ pc \in {"done", "returned"} =>
                \E k \in 1..Len(output) : output[k].v = <<"1">>

\* C12: with except_hook on (the template's first script imports it), an
\* inline expression is emitted inside the try/except wrapper and an
\* exception at its yield becomes one fragment, after which rendering goes
\* on; with except_hook off it is emitted as a bare yield.
C12_ExceptHookWrapper ==
    /\ PIBodies = <<HookImportBody, <<"=", "1">>>>
          => /\ pc \notin {"failed", "raised"}
             /\ pc \in {"made", "compiled"} =>
                   \E i \in 1..Len(_lines) : _lines[i].op = "yieldhook"
    /\ (/\ pc = "scan"
        /\ handled = "_handle_inline_expression"
        /\ BitAnd(features, except_hook) = 0)
          => _lines[Len(_lines)]
                = Line(Len(_indent), "yield", NonSpace(Tail(CurrentBody)), NoPos)

\* The outcome of the pull the runner is about to make.
Outcome ==
    IF pc = "next" THEN RunFrom(script, executor.at + 1, context, "none")
    ELSE ThrowAt(script, executor.at, context, "TypeError")

PullRaises == pc \in {"next", "throw"} /\ Outcome.kind = "raise"

RunnerExited == pc \in {"done", "returned", "raised", "closed"}

\* C14: once the runner holds the routine's iterator, every way out of the
\* runner (exhaustion, an exception out of next or throw, a failing encode,
\* the caller closing the iterator) calls close() on it, once.
C14_AlwaysClosed ==
    /\ (RunnerExited /\ executor.state # "none")
          => (executor.state = "closed" /\ closed = 1)
    /\ ~RunnerExited => closed = 0

C14_Witness ==
    /\ pc = "raised"
    /\ error.type = "AttributeError"
    /\ executor.state = "closed"
    /\ closed = 1

\* The whole run of the runner over the routine as one function: the
\* fragments an owner of the returns_iter iterator receives when it pulls to
\* the end, and how the run ends.  r is the outcome of the pull just made.
RECURSIVE FragmentsFrom(_, _, _, _)
FragmentsFrom(r, checked, bytes, out) ==
    CASE r.kind = "raise" -> [end |-> "raised", out |-> out]
      [] r.kind = "return" -> [end |-> "done", out |-> out]
      [] OTHER ->
            LET cast == checked /\ r.value.t # "str" /\ BitAnd(features, cast_string) # 0
                v == IF cast THEN StringType(r.value) ELSE r.value
            IN IF checked /\ r.value.t # "str" /\ ~cast
               THEN FragmentsFrom(ThrowAt(script, r.at, context, "TypeError"),
                                  FALSE, bytes, out)
               ELSE IF bytes /\ v.t # "str" THEN [end |-> "raised", out |-> out]
               ELSE FragmentsFrom(RunFrom(script, r.at + 1, context, "none"), TRUE, bytes,
                                  Append(out, IF bytes THEN Bytes(v.v) ELSE v))

IterFragments ==
    FragmentsFrom(RunFrom(script, DefLine(script) + 1, context, "none"), TRUE,
                  BitAnd(flags, returns_bytes) # 0, <<>>)

Concat(frags) ==
    [t |-> IF BitAnd(flags, returns_bytes) # 0 THEN "bytes" ELSE "str",
     v |-> Flatten([k \in 1..Len(frags) |-> frags[k].v])]

\* C15: what a call without returns_iter returns is the concatenation, in
\* order, of exactly the fragments the same call with returns_iter produces;
\* the fragments handed out so far are always the first of them, none
\* dropped, doubled or out of order.
C15_JoinEqualsFragments ==
    (pc \in {"next", "throw", "yielded", "done", "returned", "raised", "closed"}
     /\ IsGenerator(script))
       => /\ Len(output) <= Len(IterFragments.out)
          /\ output = SubSeq(IterFragments.out, 1, Len(output))
          /\ (pc = "done" /\ BitAnd(flags, returns_iter) # 0)
                => (IterFragments.end = "done" /\ output = IterFragments.out)
          /\ (IterFragments.end = "done" /\ BitAnd(flags, returns_iter) = 0)
                => /\ pc # "raised"
                   /\ pc = "returned" => result = Concat(IterFragments.out)

\* C16: a render_* call executes the template against a fresh mapping,
\* default_context overlaid with the per-call context (the per-call value
\* wins on a shared key); neither the caller's mapping nor default_context
\* changes during the rendering, and __file__, __encoding__ and __main__,
\* which execution binds, appear in neither.
C16_FreshContext ==
    [][/\ (pc = "compiled" /\ pc' = "called") =>
             /\ DOMAIN context' = DOMAIN default_context' \cup DOMAIN caller_context'
             /\ \A n \in DOMAIN context' :
                   context'[n] = IF n \in DOMAIN caller_context' THEN caller_context'[n]
                                 ELSE default_context'[n]
       /\ pc # "compiled" => UNCHANGED <<caller_context, default_context>>
       /\ pc = "called" /\ pc' \in {"next", "done", "raised"} =>
             /\ Dunders \subseteq DOMAIN context'
             /\ \A n \in DOMAIN context : context'[n] = context[n]
       /\ DOMAIN caller_context' \cap Dunders = {}
       /\ DOMAIN default_context' \cap Dunders = {}]_vars

C16_Witness ==
    /\ pc = "returned"
    /\ Dunders \subseteq DOMAIN context
    /\ "x" \in DOMAIN caller_context
    /\ default_context["x"] = "D"
    /\ context["x"] = "X"
    /\ context["d"] = "D"
    /\ \E k \in 1..Len(output) : output[k] = Str(<<"X">>)

\* C17: an escape PI <?\X?> becomes one literal yield of <?X?>, whatever X
\* is (X ending in { included): the block stack and the first-executable
\* flag stay as they are, and the yield gives exactly <?X?>.
C17_EscapeIsLiteral ==
    [][(ScanStep /\ startswith(CurrentBody', "\\")) =>
          /\ pc' = "scan"
          /\ handled' = "_handle_escape"
          /\ _indent' = _indent
          /\ _firstmost_executable' = _firstmost_executable
          /\ Len(_lines') >= Len(_lines) + 2
          /\ _lines'[Len(_lines') - 1].op = "marker"
          /\ _lines'[Len(_lines')].op = "yield"
          /\ Eval(_lines'[Len(_lines')].arg, EmptyMap).value
                = Str(PREFIX \o Tail(CurrentBody') \o SUFFIX)]_vars

\* The template positions of the marker comments of a script, top to bottom.
Markers(s) == [k \in 1..Len(SelectSeq(s, LAMBDA l : l.pos # NoPos)) |->
                  SelectSeq(s, LAMBDA l : l.pos # NoPos)[k].pos]

NotAfter(p, q) == p[1] < q[1] \/ (p[1] = q[1] /\ p[2] <= q[2])

\* C18: in a generated script the positions of the marker comments, read
\* top to bottom, never decrease, the markers of an embedded script and of the
\* PI behind it on the same template line included.
C18_MarkersMonotone ==
    \A k \in 1..(Len(Markers(script)) - 1) :
        NotAfter(Markers(script)[k], Markers(script)[k + 1])

\* The last of the lines S of a script at or before line H, 0 if there is none.
LastAtOrBefore(S, H) ==
    IF S \cap (1..H) = {} THEN 0
    ELSE CHOOSE i \in S \cap (1..H) : \A j \in S \cap (1..H) : j <= i

\* The lines of the script that carry a marker comment, and those that
\* consist of one.
CarryMarker == {i \in 1..Len(script) : script[i].pos # NoPos}
AreMarker == {i \in 1..Len(script) : script[i].op = "marker"}

\* C19 as written: for every line H of the script _find_original_pos(H) is
\* the position of the last marker on a line <= H, and (H, 0) without one.
C19_LastMarkerOfAnyKind ==
    \A H \in 1..Len(script) :
        _find_original_pos(script, H) =
            IF LastAtOrBefore(CarryMarker, H) = 0 THEN <<H, 0>>
            ELSE script[LastAtOrBefore(CarryMarker, H)].pos

\* Read as the marker lines only (pattern.match, line 929, is anchored at the
\* start of the line): _find_original_pos(H) is the position of the last line
\* at or before H that consists of a marker, (H, 0) without one, and the same
\* whatever follows line H.
LastMarkerLineIsRead ==
    \A H \in 1..Len(script) :
        /\ _find_original_pos(script, H) =
              IF LastAtOrBefore(AreMarker, H) = 0 THEN <<H, 0>>
              ELSE script[LastAtOrBefore(AreMarker, H)].pos
        /\ _find_original_pos(SubSeq(script, 1, H), H) = _find_original_pos(script, H)

\* The segments the scan loop cuts a template body into from offset `from`
\* on: the literal chunk before each PI, the PI's span, the trailing chunk.
RECURSIVE Cut(_, _)
Cut(t, from) ==
    IF HasMatch(t, from)
    THEN LET m == NextMatch(t, from)
         IN <<Slice(t, from + 1, m.start), PREFIX \o m.body \o SUFFIX>> \o Cut(t, m.end)
    ELSE <<Slice(t, from + 1, Len(t))>>

\* The lines a step of the translator adds to _lines.
Added == Slice(_lines', Len(_lines) + 1, Len(_lines'))

\* What a literal chunk adds to _lines: nothing when it is empty, else one
\* yield of a literal whose value is the chunk.
ChunkYield(chunk, added) ==
    IF chunk = <<>> THEN added = <<>> \/ Head(added).op # "yield"
    ELSE /\ added # <<>>
         /\ Head(added).op = "yield"
         /\ Eval(Head(added).arg, EmptyMap).value = Str(chunk)

\* The text a rendering has produced so far.
Rendered == Flatten([k \in 1..Len(output) |-> output[k].v])

\* C20: the scanner partitions the template body (the literal chunks and PI
\* spans <?body?>, in order, are the body, each symbol in exactly one
\* segment), an empty literal chunk produces no yield, and a template without
\* a PI renders as its decoded input.
C20_ScannerPartitions ==
    [][/\ Flatten(Cut(_template_body, 0)) = _template_body
       /\ ScanStep =>
             /\ last <= start' /\ start' + Len(PREFIX) + Len(SUFFIX) <= last'
             /\ last' <= Len(_template_body)
             /\ Slice(_template_body, start' + 1, last')
                   = PREFIX \o CurrentBody' \o SUFFIX
             /\ pc' = "scan" =>
                   ChunkYield(Slice(_template_body, last + 1, start'), Added)
       /\ (pc = "scan" /\ pc' = "made") =>
             /\ ChunkYield(Slice(_template_body, last + 1, Len(_template_body)), Added)
             /\ Len(Added) <= 1
       /\ ~HasMatch(_template_body, 0) =>
             /\ pc' \notin {"failed", "raised"}
             /\ pc' = "done" => Rendered' = _template_body
             /\ pc' = "returned" => result'.v = _template_body]_vars

\* The depth of the block-indent stack at the moment the k-th line of a scan
\* round is appended: the leading chunk, the PI's marker and the lines of
\* the other handlers are appended before the stack changes, the statement
\* of a block PI after the pop of a leading `}`.
DepthWhenAppended(k) ==
    IF handled' = "_handle_block" /\ Added[k].op = "stmt" /\ startswith(CurrentBody', "}")
    THEN Len(_indent) - 1
    ELSE Len(_indent)

\* The marker comment _embedscript writes for the first line of an embedded
\* script: the second of the two markers of an embed-script PI.
IsScriptMarker(k) ==
    /\ handled' = "_handle_embed_script"
    /\ k > 1
    /\ Added[k].op = "marker" /\ Added[k - 1].op = "marker"

\* What a block PI does to the stack: one frame less for a leading `}`, one
\* more for a trailing `{`.
BlockDepth ==
    Len(_indent) - (IF startswith(CurrentBody', "}") THEN 1 ELSE 0)
                 + (IF endswith(CurrentBody', "{") THEN 1 ELSE 0)

\* C21 as written: every line the emitter appends is indented by one TAB per
\* frame on the stack at the moment it is appended, the statement of a block
\* PI after the pop of a leading `}` and before the push of a trailing `{`.
C21_EveryLineAtDepth ==
    [][(ScanStep /\ pc' = "scan") =>
          /\ \A k \in 1..Len(Added) : Added[k].ind = DepthWhenAppended(k)
          /\ handled' = "_handle_block" => Len(_indent') = BlockDepth]_vars

\* C21: every line appended through _appendline and every statement of an
\* embedded script is indented by one TAB per frame on the stack at the
\* moment it is appended, the marker comment _embedscript writes for the
\* script's first line has no block indentation at all, and the statement of
\* a block PI is appended after the pop of a leading `}` and before the push
\* of a trailing `{`, so `} else: {` leaves the depth as it was.
C21_LinesAtDepth ==
    [][(ScanStep /\ pc' = "scan") =>
          /\ \A k \in 1..Len(Added) :
                Added[k].ind = IF IsScriptMarker(k) THEN 0 ELSE DepthWhenAppended(k)
          /\ handled' = "_handle_block" => Len(_indent') = BlockDepth
          /\ (handled' = "_handle_block" /\ startswith(CurrentBody', "}")
                /\ endswith(CurrentBody', "{")) => Len(_indent') = Len(_indent)]_vars

C21_Witness ==
    /\ pc = "scan"
    /\ handled = "_handle_block"
    /\ CurrentBody = <<"}", " ", "else:", " ", "{">>
    /\ Len(_indent) = 1
    /\ _lines[Len(_lines)].arg = <<"else:">>
    /\ _lines[Len(_lines)].ind = 0
    /\ \E k \in 1..Len(_lines) : _lines[k].arg = <<"if 1:">> /\ _lines[k].ind = 0

\* C22: a PI whose body starts with `}` or ends with `{` is handled as a
\* block PI, on one line or on several; a body whose last character is `{`
\* pushes one frame; a body that does not end with `{` (such as `{` followed
\* by a line break) is not handled as a block PI on account of its `{`.
C22_BraceMeansBlock ==
    [][ScanStep =>
          /\ (startswith(CurrentBody', "}") \/ endswith(CurrentBody', "{"))
                => handled' = "_handle_block"
          /\ (endswith(CurrentBody', "{") /\ pc' = "scan")
                => /\ Len(_indent') = BlockDepth
                   /\ _indent'[Len(_indent')] = _current_position'
          /\ (~startswith(CurrentBody', "}") /\ ~endswith(CurrentBody', "{"))
                => handled' # "_handle_block"]_vars

\* Whether line at of a script stands in the body of a try statement: a
\* `try:` above it, less deep, with nothing as shallow in between.
InTryBlock(s, at) ==
    \E j \in 1..(at - 1) :
        /\ s[j].arg = <<"try:">>
        /\ s[j].ind < s[at].ind
        /\ \A k \in (j + 1)..at : IsCode(s[k]) => s[k].ind > s[j].ind

\* The owner of the iterator closes it while the runner is suspended.
CloseStep == pc = "yielded" /\ pc' \in {"closed", "raised"}

\* C23 as written: closing the iterator of a returns_iter rendering while the
\* routine is suspended at a yield closes the routine, produces no further
\* fragment and raises no error, with or without a try block or an
\* except_hook wrapper around the yield.
C23_CloseNeverRaises ==
    [][CloseStep =>
          /\ executor'.state = "closed"
          /\ output' = output
          /\ pc' = "closed" /\ error' = error]_vars

\* C23: closing the iterator while the routine is suspended at a yield closes
\* the routine, once, and produces no further fragment; the close raises no
\* error when the yield stands outside every try block, and raises
\* RuntimeError (generator ignored GeneratorExit) when it stands in a try
\* block whose bare except clause yields again, as every one here does.
C23_CloseUnlessCaught ==
    [][CloseStep =>
          /\ executor'.state = "closed"
          /\ closed' = closed + 1
          /\ output' = output
          /\ IF InTryBlock(script, executor.at)
             THEN pc' = "raised" /\ error'.type = "RuntimeError"
             ELSE pc' = "closed" /\ error' = error]_vars

C23_Witness ==
    /\ BitAnd(flags, returns_iter) # 0
    /\ pc = "raised"
    /\ error.type = "RuntimeError"
    /\ output # <<>>
    /\ executor.state = "closed"
    /\ closed = 1
    /\ InTryBlock(script, executor.at)

\* The exceptions of Translator.__init__: those _makescript and its handlers
\* raise, and the SyntaxError of compile.
TranslationErrors == {"SyntaxError", "IndentationError", "TypeError", "AssertionError"}

\* No code of the template has run: no name of its module level is bound,
\* no routine exists, nothing is rendered.
NothingRan ==
    /\ DOMAIN context \cap Dunders = {}
    /\ executor = Idle
    /\ output = <<>>
    /\ closed = 0
    /\ result = NotGiven

\* The routine, resumed in the state pc, runs to its end.
RunsToEnd ==
    \/ pc = "called" /\ ~IsGenerator(script)
    \/ pc = "next" /\ RunFrom(script, executor.at + 1, context, "none").kind = "return"
    \/ pc = "throw" /\ ThrowAt(script, executor.at, context, "TypeError").kind = "return"

====
